---- MODULE Spec2Model ----
(***************************************************************************)
(* Collator Selection pallet (pallets/collator-selection/src/lib.rs).      *)
(*                                                                         *)
(* The pallet's storage items are the variables; every dispatchable call   *)
(* and every session / authorship hook is one action.  The Currency        *)
(* (free / reserved balances), the session keys and the two percentile     *)
(* parameters are the runtime configuration the pallet is generic over.    *)
(***************************************************************************)
EXTENDS Integers, Sequences, FiniteSets, TLC

(* ------------------------------- bounds -------------------------------- *)
(* the longest list set_invulnerables is called with *)
MaxInvulnerables == 1
(* the largest value set_desired_candidates is called with *)
MaxDesired == 2
(* the largest value set_candidacy_bond is called with *)
MaxBond == 3
(* the width of BlockCount (u32) cut down: the counter saturates here *)
BlockCountMax == 2

(* Currency::minimum_balance() of the runtime's Currency *)
ExistentialDeposit == 2

(* the accounts of the full state machine: account 1 holds no balance and  *)
(* has no session keys, accounts 2 and 3 hold the existential deposit and  *)
(* have registered their keys                                              *)
Accounts == {1, 2, 3}
NoAccount == 0

VARIABLES
    Invulnerables,                  \* StorageValue Vec<AccountId>
    Candidates,                     \* StorageValue Vec<CandidateInfo>
    BlocksPerCollatorThisSession,   \* StorageMap AccountId -> BlockCount
    DesiredCandidates,              \* StorageValue u32
    CandidacyBond,                  \* StorageValue Balance
    free,                           \* Currency: free balance of each account
    reserved,                       \* Currency: reserved balance of each account
    potFree,                        \* Currency: free balance of the pot account
    Registered,                     \* accounts whose validator id is registered
    Percentile,                     \* T::PerformancePercentileToConsiderForKick
    Underperform,                   \* T::UnderperformPercentileByPercentToKick
    last,                           \* the call that ran last and what it returned
    notified                        \* note_author calls per account (see Notified)

vars == <<Invulnerables, Candidates, BlocksPerCollatorThisSession,
          DesiredCandidates, CandidacyBond, free, reserved, potFree,
          Registered, Percentile, Underperform, last, notified>>

(* ------------------------------ helpers -------------------------------- *)
Contains(s, x) == \E i \in 1..Len(s) : s[i] = x

Min(a, b) == IF a <= b THEN a ELSE b

SeqsUpTo(S, n) == UNION {[1..k -> S] : k \in 0..n}

RECURSIVE SumDeposits(_)
SumDeposits(cands) ==
    IF cands = <<>> THEN 0
    ELSE cands[1].deposit + SumDeposits(Tail(cands))

RECURSIVE SumOver(_, _)
SumOver(f, S) ==
    IF S = {} THEN 0
    ELSE LET x == CHOOSE y \in S : TRUE IN f[x] + SumOver(f, S \ {x})

Whos(cands) == [i \in 1..Len(cands) |-> cands[i].who]

IsCandidate(cands, who) == \E i \in 1..Len(cands) : cands[i].who = who

(* candidates.iter().position(|candidate| candidate.who == *who) *)
Position(cands, who) ==
    IF IsCandidate(cands, who)
    THEN CHOOSE i \in 1..Len(cands) :
            /\ cands[i].who = who
            /\ \A j \in 1..(i - 1) : cands[j].who # who
    ELSE 0

(* Vec::remove(index) *)
RemoveAt(s, i) == SubSeq(s, 1, i - 1) \o SubSeq(s, i + 1, Len(s))

(* ------------------------- the performance map -------------------------- *)
StartingBlockCount == 0

EmptyBlocks == [a \in {} |-> 0]

(* ValueQuery: a key without an entry reads as StartingBlockCount *)
BlocksGet(B, a) == IF a \in DOMAIN B THEN B[a] ELSE StartingBlockCount

BlocksInsert(B, a, v) ==
    [x \in (DOMAIN B) \cup {a} |-> IF x = a THEN v ELSE B[x]]

BlocksRemove(B, a) == [x \in (DOMAIN B) \ {a} |-> B[x]]

(* fault: u32::wrapping_add(1), the counter starts over after the maximum *)
WrappingInc(n) == (n + 1) % (BlockCountMax + 1)

(* u32::saturating_add(1), the counter's width cut down to BlockCountMax *)
SaturatingInc(n) == IF n >= BlockCountMax THEN BlockCountMax ELSE n + 1

(* ------------------------------ Currency -------------------------------- *)
(* Currency::reserve: moves value from free to reserved, or fails and     *)
(* changes nothing when the free balance is too small.                     *)
CanReserve(fr, who, value) == fr[who] >= value

ReserveFree(fr, who, value) == [fr EXCEPT ![who] = @ - value]

ReserveReserved(rs, who, value) == [rs EXCEPT ![who] = @ + value]

(* Currency::unreserve: moves up to value back from reserved to free *)
UnreserveAmount(rs, who, value) == Min(value, rs[who])

UnreserveFree(fr, rs, who, value) ==
    [fr EXCEPT ![who] = @ + UnreserveAmount(rs, who, value)]

UnreserveReserved(rs, who, value) ==
    [rs EXCEPT ![who] = @ - UnreserveAmount(rs, who, value)]

(* ------------------------------ records --------------------------------- *)
Event(kind, who, amount) == [kind |-> kind, who |-> who, amount |-> amount]

Last(op, who, result, events) ==
    [op |-> op, who |-> who, result |-> result, events |-> events,
     reward |-> 0, transfer |-> "None", sorted |-> <<>>, removed |-> <<>>,
     failed |-> <<>>, roster |-> <<>>, input |-> <<>>]

(* the log of authorship notifications, kept beside the pallet: for each   *)
(* account the number of note_author calls since the latest of the last    *)
(* start_session and the last time the account left the Candidates list,   *)
(* counted up to BlockCountMax                                             *)
Notified ==
    notified' =
        IF last'.op = "start_session" THEN [a \in DOMAIN notified |-> 0]
        ELSE IF last'.op = "note_author"
             THEN [notified EXCEPT
                      ![last'.who] = Min(@ + 1, BlockCountMax)]
        ELSE IF Candidates' = Candidates THEN notified
        ELSE [a \in DOMAIN notified |->
                 IF /\ \E i \in 1..Len(Candidates) : Candidates[i].who = a
                    /\ ~\E i \in 1..Len(Candidates') : Candidates'[i].who = a
                 THEN 0
                 ELSE notified[a]]

(* ------------------------------- genesis -------------------------------- *)
NoDuplicates(s) == \A i, j \in 1..Len(s) : i # j => s[i] # s[j]

GenesisFree == [a \in Accounts |-> IF a = 1 THEN 0 ELSE ExistentialDeposit]

(* GenesisConfig::build: the invulnerables hold no duplicate, the          *)
(* percentile is below 100 and the underperformance percentage at most     *)
(* 100; no candidate is registered and the pot is not yet funded.          *)
GenesisBuild(invulnerables, candidacy_bond, desired_candidates) ==
    /\ NoDuplicates(invulnerables)
    /\ Percentile < 100
    /\ Underperform <= 100
    /\ DesiredCandidates = desired_candidates
    /\ CandidacyBond = candidacy_bond
    /\ Invulnerables = invulnerables

Init ==
    /\ Percentile = 99
    /\ Underperform = 50
    /\ GenesisBuild(<<1>>, 1, MaxDesired)
    /\ Candidates = <<>>
    /\ BlocksPerCollatorThisSession = EmptyBlocks
    /\ free = GenesisFree
    /\ reserved = [a \in Accounts |-> 0]
    /\ potFree = 0
    /\ Registered = {a \in Accounts : GenesisFree[a] > 0}
    /\ last = Last("genesis", NoAccount, "Ok", <<>>)
    /\ notified = [a \in Accounts |-> 0]

(* --------------------------- parameter calls ---------------------------- *)
set_invulnerables(new) ==
    /\ Invulnerables' = new
    /\ last' = Last("set_invulnerables", NoAccount, "Ok",
                    <<Event("NewInvulnerables", NoAccount, 0)>>)
    /\ UNCHANGED <<Candidates, BlocksPerCollatorThisSession, DesiredCandidates,
                   CandidacyBond, free, reserved, potFree, Registered,
                   Percentile, Underperform>>
    /\ Notified

set_desired_candidates(max) ==
    /\ DesiredCandidates' = max
    /\ last' = Last("set_desired_candidates", NoAccount, "Ok",
                    <<Event("NewDesiredCandidates", NoAccount, max)>>)
    /\ UNCHANGED <<Invulnerables, Candidates, BlocksPerCollatorThisSession,
                   CandidacyBond, free, reserved, potFree, Registered,
                   Percentile, Underperform>>
    /\ Notified

(* fault: the new bond is written into the entries already registered *)
set_candidacy_bond_retroactive(bond) ==
    /\ CandidacyBond' = bond
    /\ Candidates' = [i \in 1..Len(Candidates) |->
                          [who |-> Candidates[i].who, deposit |-> bond]]
    /\ last' = Last("set_candidacy_bond", NoAccount, "Ok",
                    <<Event("NewCandidacyBond", NoAccount, bond)>>)
    /\ UNCHANGED <<Invulnerables, BlocksPerCollatorThisSession,
                   DesiredCandidates, free, reserved, potFree, Registered,
                   Percentile, Underperform>>
    /\ Notified

set_candidacy_bond(bond) ==
    /\ CandidacyBond' = bond
    /\ last' = Last("set_candidacy_bond", NoAccount, "Ok",
                    <<Event("NewCandidacyBond", NoAccount, bond)>>)
    /\ UNCHANGED <<Invulnerables, Candidates, BlocksPerCollatorThisSession,
                   DesiredCandidates, free, reserved, potFree, Registered,
                   Percentile, Underperform>>
    /\ Notified

(* ----------------------------- registration ----------------------------- *)
(* IdentityCollator::convert: every account has a validator id, itself *)
ValidatorIdOf(who) == who

(* T::ValidatorRegistration::is_registered *)
IsRegistered(key) == key \in Registered

(* fault: the limit test admits one candidate more than desired *)
BelowLimitInclusive(length, desired) == length <= desired

(* ensure!((length as u32) < Self::desired_candidates(), TooManyCandidates) *)
BelowLimit(length, desired) == length < desired

(* fault: the closure pushes without looking for the account in the list *)
RegistrationResultNoDuplicateCheck(who) ==
    IF ~(Len(Candidates) < DesiredCandidates) THEN "TooManyCandidates"
    ELSE IF Contains(Invulnerables, who) THEN "AlreadyInvulnerable"
    ELSE IF who \notin Registered THEN "ValidatorNotRegistered"
    ELSE IF ~CanReserve(free, who, CandidacyBond) THEN "InsufficientBalance"
    ELSE "Ok"

(* fault: the invulnerables are not consulted *)
RegistrationResultNoInvulnerableCheck(who) ==
    IF ~(Len(Candidates) < DesiredCandidates) THEN "TooManyCandidates"
    ELSE IF who \notin Registered THEN "ValidatorNotRegistered"
    ELSE IF IsCandidate(Candidates, who) THEN "AlreadyCandidate"
    ELSE IF ~CanReserve(free, who, CandidacyBond) THEN "InsufficientBalance"
    ELSE "Ok"

(* the ensure! chain of register_as_candidate / register_candidate, in the *)
(* order of the code, then the checks of the try_mutate closure            *)
RegistrationResult(who) ==
    IF ~BelowLimit(Len(Candidates), DesiredCandidates) THEN "TooManyCandidates"
    ELSE IF Contains(Invulnerables, who) THEN "AlreadyInvulnerable"
    ELSE IF ValidatorIdOf(who) = NoAccount THEN "NoAssociatedValidatorId"
    ELSE IF ~IsRegistered(ValidatorIdOf(who)) THEN "ValidatorNotRegistered"
    ELSE IF IsCandidate(Candidates, who) THEN "AlreadyCandidate"
    ELSE IF ~CanReserve(free, who, CandidacyBond) THEN "InsufficientBalance"
    ELSE "Ok"

(* the Ok branch of the closure: reserve the bond, push the candidate *)
PushCandidate(op, who) ==
    LET deposit == CandidacyBond
        incoming == [who |-> who, deposit |-> deposit]
    IN  /\ free' = ReserveFree(free, who, deposit)
        /\ reserved' = ReserveReserved(reserved, who, deposit)
        /\ Candidates' = Append(Candidates, incoming)
        /\ last' = Last(op, who, "Ok", <<Event("CandidateAdded", who, deposit)>>)

(* fault: the bond is reserved before the closure looks for the account,  *)
(* and stays reserved when the closure fails with AlreadyCandidate         *)
register_as_candidate_reserves_early(who) ==
    LET result == RegistrationResult(who) IN
    /\ IF result = "Ok"
       THEN PushCandidate("register_as_candidate", who)
       ELSE /\ last' = Last("register_as_candidate", who, result, <<>>)
            /\ IF result = "AlreadyCandidate" /\ CanReserve(free, who, CandidacyBond)
               THEN /\ free' = ReserveFree(free, who, CandidacyBond)
                    /\ reserved' = ReserveReserved(reserved, who, CandidacyBond)
               ELSE UNCHANGED <<free, reserved>>
            /\ UNCHANGED Candidates
    /\ UNCHANGED <<Invulnerables, BlocksPerCollatorThisSession, DesiredCandidates,
                   CandidacyBond, potFree, Registered, Percentile, Underperform>>
    /\ Notified

register_as_candidate(who) ==
    LET result == RegistrationResult(who) IN
    /\ IF result = "Ok"
       THEN PushCandidate("register_as_candidate", who)
       ELSE /\ last' = Last("register_as_candidate", who, result, <<>>)
            /\ UNCHANGED <<Candidates, free, reserved>>
    /\ UNCHANGED <<Invulnerables, BlocksPerCollatorThisSession, DesiredCandidates,
                   CandidacyBond, potFree, Registered, Percentile, Underperform>>
    /\ Notified

register_candidate(new_candidate) ==
    LET result == RegistrationResult(new_candidate) IN
    /\ IF result = "Ok"
       THEN PushCandidate("register_candidate", new_candidate)
       ELSE /\ last' = Last("register_candidate", new_candidate, result, <<>>)
            /\ UNCHANGED <<Candidates, free, reserved>>
    /\ UNCHANGED <<Invulnerables, BlocksPerCollatorThisSession, DesiredCandidates,
                   CandidacyBond, potFree, Registered, Percentile, Underperform>>
    /\ Notified

(* ------------------------------- removal -------------------------------- *)
(* what try_remove_candidate and the eviction walk read and write *)
Store ==
    [cands |-> Candidates, blocks |-> BlocksPerCollatorThisSession,
     free |-> free, reserved |-> reserved, events |-> <<>>,
     removed |-> <<>>, failed |-> <<>>]

(* fault: the entry is removed and its deposit stays reserved *)
try_remove_candidate_keeps_bond(st, who) ==
    LET index == Position(st.cands, who) IN
    IF index = 0
    THEN [ok |-> FALSE, err |-> "NotCandidate", st |-> st]
    ELSE [ok |-> TRUE, err |-> "Ok",
          st |-> [st EXCEPT
                    !.cands = RemoveAt(st.cands, index),
                    !.blocks = BlocksRemove(st.blocks, who),
                    !.events = Append(@, Event("CandidateRemoved", who, 0))]]

(* fault: the performance counter is cleared before the account is looked *)
(* up, so it is cleared for an account that is no candidate as well       *)
try_remove_candidate_clears_first(st, who) ==
    LET index == Position(st.cands, who)
        cleared == [st EXCEPT !.blocks = BlocksRemove(st.blocks, who)]
    IN  IF index = 0
        THEN [ok |-> FALSE, err |-> "NotCandidate", st |-> cleared]
        ELSE LET deposit == st.cands[index].deposit IN
             [ok |-> TRUE, err |-> "Ok",
              st |-> [cleared EXCEPT
                        !.free = UnreserveFree(st.free, st.reserved, who, deposit),
                        !.reserved = UnreserveReserved(st.reserved, who, deposit),
                        !.cands = RemoveAt(st.cands, index),
                        !.events = Append(@, Event("CandidateRemoved", who, 0))]]

(* fault: the performance counter of the removed account is kept *)
try_remove_candidate_keeps_counter(st, who) ==
    LET index == Position(st.cands, who) IN
    IF index = 0
    THEN [ok |-> FALSE, err |-> "NotCandidate", st |-> st]
    ELSE LET deposit == st.cands[index].deposit IN
         [ok |-> TRUE, err |-> "Ok",
          st |-> [st EXCEPT
                    !.free = UnreserveFree(st.free, st.reserved, who, deposit),
                    !.reserved = UnreserveReserved(st.reserved, who, deposit),
                    !.cands = RemoveAt(st.cands, index),
                    !.events = Append(@, Event("CandidateRemoved", who, 0))]]

(* fault: Vec::swap_remove, the last entry takes the place of the removed *)
try_remove_candidate_swap_remove(st, who) ==
    LET index == Position(st.cands, who) IN
    IF index = 0
    THEN [ok |-> FALSE, err |-> "NotCandidate", st |-> st]
    ELSE LET deposit == st.cands[index].deposit
             n == Len(st.cands)
         IN  [ok |-> TRUE, err |-> "Ok",
              st |-> [st EXCEPT
                        !.free = UnreserveFree(st.free, st.reserved, who, deposit),
                        !.reserved = UnreserveReserved(st.reserved, who, deposit),
                        !.cands = [i \in 1..(n - 1) |->
                                      IF i = index THEN st.cands[n]
                                      ELSE st.cands[i]],
                        !.blocks = BlocksRemove(st.blocks, who),
                        !.events = Append(@, Event("CandidateRemoved", who, 0))]]

(* Removes a candidate if they exist and sends them back their deposit *)
try_remove_candidate(st, who) ==
    LET index == Position(st.cands, who) IN
    IF index = 0
    THEN [ok |-> FALSE, err |-> "NotCandidate", st |-> st]
    ELSE LET deposit == st.cands[index].deposit IN
         [ok |-> TRUE, err |-> "Ok",
          st |-> [st EXCEPT
                    !.free = UnreserveFree(st.free, st.reserved, who, deposit),
                    !.reserved = UnreserveReserved(st.reserved, who, deposit),
                    !.cands = RemoveAt(st.cands, index),
                    !.blocks = BlocksRemove(st.blocks, who),
                    !.events = Append(@, Event("CandidateRemoved", who, 0))]]

Commit(st) ==
    /\ Candidates' = st.cands
    /\ BlocksPerCollatorThisSession' = st.blocks
    /\ free' = st.free
    /\ reserved' = st.reserved

leave_intent(who) ==
    LET r == try_remove_candidate(Store, who) IN
    /\ Commit(r.st)
    /\ last' = Last("leave_intent", who, r.err, r.st.events)
    /\ UNCHANGED <<Invulnerables, DesiredCandidates, CandidacyBond, potFree,
                   Registered, Percentile, Underperform>>
    /\ Notified

(* fault: the invulnerables are not consulted *)
remove_collator_unguarded(collator) ==
    /\ LET r == try_remove_candidate(Store, collator) IN
       /\ Commit(r.st)
       /\ last' = Last("remove_collator", collator, r.err, r.st.events)
    /\ UNCHANGED <<Invulnerables, DesiredCandidates, CandidacyBond, potFree,
                   Registered, Percentile, Underperform>>
    /\ Notified

remove_collator(collator) ==
    /\ IF Contains(Invulnerables, collator)
       THEN /\ last' = Last("remove_collator", collator,
                            "NotAllowRemoveInvulnerable", <<>>)
            /\ UNCHANGED <<Candidates, BlocksPerCollatorThisSession, free, reserved>>
       ELSE LET r == try_remove_candidate(Store, collator) IN
            /\ Commit(r.st)
            /\ last' = Last("remove_collator", collator, r.err, r.st.events)
    /\ UNCHANGED <<Invulnerables, DesiredCandidates, CandidacyBond, potFree,
                   Registered, Percentile, Underperform>>
    /\ Notified

(* -------------------------------- rewards ------------------------------- *)
(* fault: a plain subtraction where the code has checked_sub *)
RewardOfUnchecked(pot, minimum) == (pot - minimum) \div 2

(* free_balance(&pot).checked_sub(&minimum_balance())                      *)
(*     .unwrap_or_else(Zero::zero).div(2u32.into())                        *)
RewardOf(pot, minimum) ==
    (IF pot >= minimum THEN pot - minimum ELSE 0) \div 2

(* Currency::transfer(&pot, &author, reward, KeepAlive): a zero transfer   *)
(* succeeds; the author must end with at least the existential deposit     *)
(* and the pot must keep it.                                               *)
TransferResult(pot, author, value) ==
    IF value = 0 THEN "Ok"
    ELSE IF pot < value THEN "InsufficientBalance"
    ELSE IF free[author] + value + reserved[author] < ExistentialDeposit
         THEN "ExistentialDeposit"
    ELSE IF pot - value < ExistentialDeposit THEN "KeepAlive"
    ELSE "Ok"

(* fault: the block is counted only when the reward was paid *)
note_author_counts_paid_only(author) ==
    LET reward == RewardOf(potFree, ExistentialDeposit)
        success == TransferResult(potFree, author, reward)
        authored_blocks ==
            SaturatingInc(BlocksGet(BlocksPerCollatorThisSession, author))
    IN  /\ IF success = "Ok"
           THEN /\ potFree' = potFree - reward
                /\ free' = [free EXCEPT ![author] = @ + reward]
                /\ BlocksPerCollatorThisSession' =
                       BlocksInsert(BlocksPerCollatorThisSession, author,
                                    authored_blocks)
           ELSE UNCHANGED <<potFree, free, BlocksPerCollatorThisSession>>
        /\ last' = [Last("note_author", author, "Ok", <<>>) EXCEPT
                       !.reward = reward, !.transfer = success]
        /\ UNCHANGED <<Invulnerables, Candidates, DesiredCandidates, CandidacyBond,
                       reserved, Registered, Percentile, Underperform>>
        /\ Notified

note_author(author) ==
    LET reward == RewardOf(potFree, ExistentialDeposit)
        success == TransferResult(potFree, author, reward)
        authored_blocks ==
            SaturatingInc(BlocksGet(BlocksPerCollatorThisSession, author))
    IN  /\ IF success = "Ok"
           THEN /\ potFree' = potFree - reward
                /\ free' = [free EXCEPT ![author] = @ + reward]
           ELSE UNCHANGED <<potFree, free>>
        /\ BlocksPerCollatorThisSession' =
               BlocksInsert(BlocksPerCollatorThisSession, author, authored_blocks)
        /\ last' = [Last("note_author", author, "Ok", <<>>) EXCEPT
                       !.reward = reward, !.transfer = success]
        /\ UNCHANGED <<Invulnerables, Candidates, DesiredCandidates, CandidacyBond,
                       reserved, Registered, Percentile, Underperform>>
        /\ Notified

(* ------------------------------- eviction ------------------------------- *)
(* the orders sort_unstable_by_key can leave the iterated map in: every    *)
(* arrangement of its entries that ascends by count                        *)
RECURSIVE SortedSnapshots(_)
SortedSnapshots(B) ==
    IF DOMAIN B = {} THEN {<<>>}
    ELSE LET lowest == CHOOSE n \in {B[a] : a \in DOMAIN B} :
                           \A a \in DOMAIN B : n <= B[a]
         IN  UNION {{<<<<a, lowest>>>> \o rest :
                        rest \in SortedSnapshots(BlocksRemove(B, a))} :
                    a \in {x \in DOMAIN B : B[x] = lowest}}

(* pairs <<P, N>>, N <= 200, for which the f64 product (P / 100.0) * N is  *)
(* below the integer P * N / 100 and truncates to one less                 *)
F64RankRoundsBelow ==
    {<<29, 100>>, <<29, 200>>, <<35, 180>>, <<57, 100>>, <<57, 200>>,
     <<58, 50>>, <<58, 100>>, <<58, 200>>, <<70, 90>>, <<70, 170>>,
     <<70, 180>>, <<82, 150>>}

(* pairs <<U, b>>, b <= 64, for which the f64 product (1.0 - U / 100.0) * b *)
(* is below the integer (100 - U) * b / 100 and truncates to one less       *)
F64ThresholdRoundsBelow ==
    {<<34, 50>>, <<55, 60>>, <<56, 25>>, <<56, 50>>, <<68, 25>>, <<68, 50>>,
     <<78, 50>>, <<80, 5>>, <<80, 10>>, <<80, 15>>, <<80, 20>>, <<80, 25>>,
     <<80, 30>>, <<80, 35>>, <<80, 40>>, <<80, 45>>, <<80, 50>>, <<80, 55>>,
     <<80, 60>>, <<90, 10>>, <<90, 20>>, <<90, 30>>, <<90, 40>>, <<90, 50>>,
     <<90, 60>>, <<92, 25>>, <<92, 50>>}

(* fault: the rank is not lowered by one for the 0-indexed list *)
OrdinalRank_one_based(P, n) ==
    LET exact == (P * n) \div 100
    IN  IF <<P, n>> \in F64RankRoundsBelow THEN exact - 1 ELSE exact

(* ((P as f64) / 100.0 * n as f64) as usize, then saturating_sub(1) *)
OrdinalRank(P, n) ==
    LET exact == (P * n) \div 100
        truncated == IF <<P, n>> \in F64RankRoundsBelow THEN exact - 1 ELSE exact
    IN  IF truncated >= 1 THEN truncated - 1 ELSE 0

(* ((1.0 - U as f64 / 100.0) * (blocks as f64)) as BlockCount *)
KickThreshold(U, blocks) ==
    LET exact == ((100 - U) * blocks) \div 100
    IN  IF <<U, blocks>> \in F64ThresholdRoundsBelow THEN exact - 1 ELSE exact

(* fault: the invulnerables are not looked at *)
KickOne_spares_nobody(st, acc_id, kick_threshold) ==
    IF BlocksGet(st.blocks, acc_id) <= kick_threshold
    THEN LET r == try_remove_candidate(st, acc_id) IN
         IF r.ok
         THEN [r.st EXCEPT !.removed = Append(@, acc_id)]
         ELSE [st EXCEPT !.failed = Append(@, acc_id)]
    ELSE st

(* one step of the for_each over kick_candidates; a removal that fails is *)
(* logged (the debug_assert is compiled out of the release build)          *)
KickOne(st, acc_id, kick_threshold) ==
    IF /\ BlocksGet(st.blocks, acc_id) <= kick_threshold
       /\ ~Contains(Invulnerables, acc_id)
    THEN LET r == try_remove_candidate(st, acc_id) IN
         IF r.ok
         THEN [r.st EXCEPT !.removed = Append(@, acc_id)]
         ELSE [st EXCEPT !.failed = Append(@, acc_id)]
    ELSE st

(* fault: the walk ends at the first removal that fails *)
RECURSIVE KickWalk_stops_at_failure(_, _, _)
KickWalk_stops_at_failure(st, kick_candidates, kick_threshold) ==
    IF kick_candidates = <<>> \/ st.failed # <<>> THEN st
    ELSE KickWalk_stops_at_failure(
             KickOne(st, Head(kick_candidates), kick_threshold),
             Tail(kick_candidates), kick_threshold)

(* kick_candidates.into_iter().for_each: a failed removal is logged and    *)
(* the walk goes on                                                         *)
RECURSIVE KickWalk(_, _, _)
KickWalk(st, kick_candidates, kick_threshold) ==
    IF kick_candidates = <<>> THEN st
    ELSE KickWalk(KickOne(st, Head(kick_candidates), kick_threshold),
                  Tail(kick_candidates), kick_threshold)

(* fault: no early return; with no entry every candidate counts as having *)
(* authored zero blocks and is walked                                      *)
kick_stale_candidates_absent_as_zero(st, sorted) ==
    IF sorted = <<>> THEN KickWalk(st, Whos(st.cands), 0)
    ELSE LET ordinal_rank == OrdinalRank(Percentile, Len(sorted))
             kick_threshold ==
                 KickThreshold(Underperform, sorted[ordinal_rank + 1][2])
         IN  KickWalk(st, [i \in 1..ordinal_rank |-> sorted[i][1]],
                      kick_threshold)

(* fault: the candidates without a counter are walked as well, after the  *)
(* low slice, and read as having authored no block                         *)
kick_stale_candidates_walks_registry(st, sorted) ==
    IF sorted = <<>> THEN st
    ELSE LET ordinal_rank == OrdinalRank(Percentile, Len(sorted))
             kick_threshold ==
                 KickThreshold(Underperform, sorted[ordinal_rank + 1][2])
             kick_candidates == [i \in 1..ordinal_rank |-> sorted[i][1]]
             idle == SelectSeq(Whos(st.cands),
                               LAMBDA who : who \notin DOMAIN st.blocks)
         IN  KickWalk(st, kick_candidates \o idle, kick_threshold)

(* sorted: collator_perf_this_session after the sort, 0-indexed in the     *)
(* code and 1-indexed here                                                 *)
kick_stale_candidates(st, sorted) ==
    IF sorted = <<>> THEN st
    ELSE LET no_of_candidates == Len(sorted)
             ordinal_rank == OrdinalRank(Percentile, no_of_candidates)
             blocks_created_at_percentile == sorted[ordinal_rank + 1][2]
             kick_threshold ==
                 KickThreshold(Underperform, blocks_created_at_percentile)
             kick_candidates ==
                 [i \in 1..ordinal_rank |-> sorted[i][1]]
         IN  KickWalk(st, kick_candidates, kick_threshold)

(* fault: a candidate that is an invulnerable too is left out *)
assemble_collators_deduplicated(candidates) ==
    Invulnerables \o
        SelectSeq(candidates, LAMBDA who : ~Contains(Invulnerables, who))

(* invulnerables() extended by the candidates handed over *)
assemble_collators(candidates) == Invulnerables \o candidates

(* fault: the roster is assembled from the candidates read before the     *)
(* eviction, the evicted ones included                                      *)
new_session_returns_evicted(sorted) ==
    LET candidates == Candidates
        st == kick_stale_candidates(Store, sorted)
        result == assemble_collators(Whos(candidates))
    IN  /\ Commit(st)
        /\ last' = [Last("new_session", NoAccount, "Ok", st.events) EXCEPT
                       !.sorted = sorted, !.removed = st.removed,
                       !.failed = st.failed, !.roster = result]
        /\ UNCHANGED <<Invulnerables, DesiredCandidates, CandidacyBond, potFree,
                       Registered, Percentile, Underperform>>
        /\ Notified

new_session(sorted) ==
    LET candidates == Candidates
        st == kick_stale_candidates(Store, sorted)
        removed_collators == st.removed
        active_candidates ==
            SelectSeq(Whos(candidates),
                      LAMBDA who : ~Contains(removed_collators, who))
        result == assemble_collators(active_candidates)
    IN  /\ Commit(st)
        /\ last' = [Last("new_session", NoAccount, "Ok", st.events) EXCEPT
                       !.sorted = sorted, !.removed = removed_collators,
                       !.failed = st.failed, !.roster = result]
        /\ UNCHANGED <<Invulnerables, DesiredCandidates, CandidacyBond, potFree,
                       Registered, Percentile, Underperform>>
        /\ Notified

(* fault: every counter is lowered by one and its entry kept *)
reset_collator_performance_decrements ==
    BlocksPerCollatorThisSession' =
        [a \in DOMAIN BlocksPerCollatorThisSession |->
            IF BlocksPerCollatorThisSession[a] >= 1
            THEN BlocksPerCollatorThisSession[a] - 1 ELSE 0]

(* BlocksPerCollatorThisSession::remove_all(None) *)
reset_collator_performance == BlocksPerCollatorThisSession' = EmptyBlocks

start_session ==
    /\ reset_collator_performance
    /\ last' = Last("start_session", NoAccount, "Ok", <<>>)
    /\ UNCHANGED <<Invulnerables, Candidates, DesiredCandidates, CandidacyBond,
                   free, reserved, potFree, Registered, Percentile, Underperform>>
    /\ Notified

Next ==
    \/ \E new \in SeqsUpTo(Accounts, MaxInvulnerables) : set_invulnerables(new)
    \/ \E max \in {MaxDesired - 1, MaxDesired} : set_desired_candidates(max)
    \/ \E bond \in {1, MaxBond} : set_candidacy_bond(bond)
    \/ \E who \in Accounts : register_as_candidate(who)
    \/ \E who \in Accounts : register_candidate(who)
    \/ \E who \in Accounts : leave_intent(who)
    \/ \E who \in Accounts : remove_collator(who)
    \/ \E author \in Accounts : note_author(author)
    \/ \E sorted \in SortedSnapshots(BlocksPerCollatorThisSession) :
           new_session(sorted)
    \/ start_session

Spec == Init /\ [][Next]_vars

(* ------------------- the reward rule over a funded pot ------------------ *)
(* the largest balance the pot starts with *)
MaxPot == 12

InitReward ==
    /\ Percentile = 99
    /\ Underperform = 50
    /\ GenesisBuild(<<1>>, 1, MaxDesired)
    /\ Candidates = <<>>
    /\ BlocksPerCollatorThisSession = EmptyBlocks
    /\ free = GenesisFree
    /\ reserved = [a \in Accounts |-> 0]
    /\ potFree \in 0..MaxPot
    /\ Registered = Accounts
    /\ last = Last("genesis", NoAccount, "Ok", <<>>)
    /\ notified = [a \in Accounts |-> 0]

NextReward ==
    \/ \E author \in Accounts : note_author(author)
    \/ start_session

SpecReward == InitReward /\ [][NextReward]_vars

(* ------------- sessions of block authoring with a funded pot ------------ *)
(* the pot is empty or holds one unit over twice the existential deposit,  *)
(* so that a reward below the existential deposit is paid out: account 1,  *)
(* the invulnerable, holds nothing and cannot receive it                   *)
InitTracker ==
    /\ Percentile = 99
    /\ Underperform = 50
    /\ GenesisBuild(<<1>>, 1, MaxDesired)
    /\ Candidates = <<>>
    /\ BlocksPerCollatorThisSession = EmptyBlocks
    /\ free = GenesisFree
    /\ reserved = [a \in Accounts |-> 0]
    /\ potFree \in {0, 2 * ExistentialDeposit + 1}
    /\ Registered = {a \in Accounts : GenesisFree[a] > 0}
    /\ last = Last("genesis", NoAccount, "Ok", <<>>)
    /\ notified = [a \in Accounts |-> 0]

NextTracker ==
    \/ \E bond \in {1, MaxBond} : set_candidacy_bond(bond)
    \/ \E who \in Accounts : register_as_candidate(who)
    \/ \E who \in Accounts : leave_intent(who)
    \/ \E who \in Accounts : remove_collator(who)
    \/ \E author \in Accounts : note_author(author)
    \/ \E sorted \in SortedSnapshots(BlocksPerCollatorThisSession) :
           new_session(sorted)
    \/ start_session

SpecTracker == InitTracker /\ [][NextTracker]_vars

(* ------------- the eviction pass over a range of sessions -------------- *)
KickAccounts == {1, 2, 3, 4}

(* the block counts an account ends the session with *)
KickCounts == {1, 2, 5}

RECURSIVE Ascending(_)
Ascending(S) ==
    IF S = {} THEN <<>>
    ELSE LET m == CHOOSE x \in S : \A y \in S : x <= y
         IN  <<m>> \o Ascending(S \ {m})

Reverse(s) == [i \in 1..Len(s) |-> s[Len(s) + 1 - i]]

(* a registry holding the accounts of order, each with a bond of 1 *)
RegistryOf(order) == [i \in 1..Len(order) |-> [who |-> order[i], deposit |-> 1]]

(* the state at the end of a session: any set of the accounts registered,  *)
(* the latest account first, any set of them having authored blocks        *)
InitKickSmall ==
    /\ Percentile \in {50, 99}
    /\ Underperform \in {0, 50, 80}
    /\ \E invulnerables \in {<<>>, <<1>>} : GenesisBuild(invulnerables, 1, 4)
    /\ \E S \in SUBSET KickAccounts :
           /\ Candidates = RegistryOf(Reverse(Ascending(S)))
           /\ reserved = [a \in KickAccounts |-> IF a \in S THEN 1 ELSE 0]
    /\ \E T \in SUBSET KickAccounts :
           BlocksPerCollatorThisSession \in [T -> KickCounts]
    /\ free = [a \in KickAccounts |-> ExistentialDeposit]
    /\ Registered = KickAccounts

(* ten candidates having authored 1, 2, ..., 10 blocks, with the 20th      *)
(* percentile and 50 percent underperformance                              *)
InitKickTen ==
    /\ Percentile = 20
    /\ Underperform = 50
    /\ GenesisBuild(<<>>, 1, 10)
    /\ Candidates = RegistryOf([i \in 1..10 |-> i])
    /\ reserved = [a \in 1..10 |-> 1]
    /\ BlocksPerCollatorThisSession = [a \in 1..10 |-> a]
    /\ free = [a \in 1..10 |-> ExistentialDeposit]
    /\ Registered = 1..10

InitKick ==
    /\ InitKickSmall \/ InitKickTen
    /\ potFree = 0
    /\ last = Last("genesis", NoAccount, "Ok", <<>>)
    /\ notified = [a \in DOMAIN free |->
                       BlocksGet(BlocksPerCollatorThisSession, a)]

NextKick ==
    \E sorted \in SortedSnapshots(BlocksPerCollatorThisSession) :
        new_session(sorted)

SpecKick == InitKick /\ [][NextKick]_vars

(* ------------- the registry with up to four candidates ----------------- *)
(* four accounts with keys and funds, no invulnerable, room for all four:  *)
(* registrations and removals in any order                                  *)
InitRegistry ==
    /\ Percentile = 99
    /\ Underperform = 50
    /\ GenesisBuild(<<>>, 1, 4)
    /\ Candidates = <<>>
    /\ BlocksPerCollatorThisSession = EmptyBlocks
    /\ free = [a \in KickAccounts |-> ExistentialDeposit]
    /\ reserved = [a \in KickAccounts |-> 0]
    /\ potFree = 0
    /\ Registered = KickAccounts
    /\ last = Last("genesis", NoAccount, "Ok", <<>>)
    /\ notified = [a \in KickAccounts |-> 0]

NextRegistry ==
    \/ \E who \in KickAccounts : register_as_candidate(who)
    \/ \E who \in KickAccounts : register_candidate(who)
    \/ \E who \in KickAccounts : leave_intent(who)
    \/ \E who \in KickAccounts : remove_collator(who)

SpecRegistry == InitRegistry /\ [][NextRegistry]_vars

(* --------------- assemble_collators called on its own ------------------- *)
(* the longest list assemble_collators is handed, and the longest list of  *)
(* invulnerables it reads                                                   *)
MaxAssemble == 2

(* a caller of the public function: the list handed over and the list      *)
(* returned are kept in last                                                *)
call_assemble_collators(candidates) ==
    /\ last' = [Last("assemble_collators", NoAccount, "Ok", <<>>) EXCEPT
                   !.input = candidates,
                   !.roster = assemble_collators(candidates)]
    /\ UNCHANGED <<Invulnerables, Candidates, BlocksPerCollatorThisSession,
                   DesiredCandidates, CandidacyBond, free, reserved, potFree,
                   Registered, Percentile, Underperform>>
    /\ Notified

(* any list of invulnerables set_invulnerables can have stored, a repeated *)
(* account included                                                         *)
InitAssemble ==
    /\ Percentile = 99
    /\ Underperform = 50
    /\ DesiredCandidates = MaxDesired
    /\ CandidacyBond = 1
    /\ Invulnerables \in SeqsUpTo(KickAccounts, MaxAssemble)
    /\ Candidates = <<>>
    /\ BlocksPerCollatorThisSession = EmptyBlocks
    /\ free = [a \in KickAccounts |-> ExistentialDeposit]
    /\ reserved = [a \in KickAccounts |-> 0]
    /\ potFree = 0
    /\ Registered = KickAccounts
    /\ last = Last("genesis", NoAccount, "Ok", <<>>)
    /\ notified = [a \in KickAccounts |-> 0]

NextAssemble ==
    \E candidates \in SeqsUpTo(KickAccounts, MaxAssemble) :
        call_assemble_collators(candidates)

SpecAssemble == InitAssemble /\ [][NextAssemble]_vars

(* ===================== the pallet's documented behaviour ================ *)
(* everything the pallet and the Currency store: all variables but last *)
storage == <<Invulnerables, Candidates, BlocksPerCollatorThisSession,
             DesiredCandidates, CandidacyBond, free, reserved, potFree,
             Registered, Percentile, Underperform>>

RegisterOps == {"register_as_candidate", "register_candidate"}

RemoveOps == {"leave_intent", "remove_collator"}

(* C1: no account is both in the Invulnerables list and in the Candidates *)
(* list, in any reachable state.                                           *)
C1_Disjoint ==
    \A i \in 1..Len(Candidates) : ~Contains(Invulnerables, Candidates[i].who)

(* the reserved balances against the registry *)
C2_Reserved ==
    /\ SumOver(reserved, DOMAIN reserved) = SumDeposits(Candidates)
    /\ \A i \in 1..Len(Candidates) :
           reserved[Candidates[i].who] = Candidates[i].deposit
    /\ \A a \in DOMAIN reserved :
           ~IsCandidate(Candidates, a) => reserved[a] = 0

(* what a successful registration records and reserves *)
C2_DepositIsBondAtRegistration ==
    (last'.op \in RegisterOps /\ last'.result = "Ok") =>
        /\ Candidates' = Append(Candidates,
                                [who |-> last'.who, deposit |-> CandidacyBond])
        /\ reserved'[last'.who] = reserved[last'.who] + CandidacyBond

(* C2: bond conservation.  In every reachable state the reserved balances *)
(* sum to the deposits of the registry, every candidate has exactly its    *)
(* recorded deposit reserved and an account that is no candidate has       *)
(* nothing reserved; the deposit a registration records and reserves is    *)
(* the bond in effect at that call.                                        *)
C2_BondConservation ==
    [](C2_Reserved) /\ [][C2_DepositIsBondAtRegistration]_vars

(* a candidate was evicted by new_session and its bond released, while the *)
(* remaining one keeps a deposit that differs from the present bond        *)
C2_Witness ==
    /\ last.op = "new_session"
    /\ Len(last.removed) = 1
    /\ reserved[last.removed[1]] = 0
    /\ Len(Candidates) = 1
    /\ Candidates[1].deposit # CandidacyBond
    /\ reserved[Candidates[1].who] = Candidates[1].deposit

(* C4: new_session over an empty performance map evicts nobody, releases   *)
(* no bond, fails no removal, and returns the invulnerables followed by    *)
(* all current candidates.                                                 *)
C4_EmptyTracker ==
    [][(last'.op = "new_session" /\ DOMAIN BlocksPerCollatorThisSession = {}) =>
          /\ last'.removed = <<>>
          /\ last'.failed = <<>>
          /\ last'.events = <<>>
          /\ last'.result = "Ok"
          /\ UNCHANGED storage
          /\ last'.roster = Invulnerables \o Whos(Candidates)]_vars

C4_Witness ==
    /\ last.op = "new_session"
    /\ last.sorted = <<>>
    /\ DOMAIN BlocksPerCollatorThisSession = {}
    /\ Len(Candidates) = 2
    /\ Len(Invulnerables) = 1
    /\ last.roster = Invulnerables \o Whos(Candidates)

(* C5: with the registry at or over the desired count, registering an      *)
(* account that is neither candidate nor invulnerable fails with           *)
(* TooManyCandidates and changes nothing.                                   *)
C5_TooManyCandidates ==
    [][(/\ last'.op \in RegisterOps
        /\ Len(Candidates) >= DesiredCandidates
        /\ ~IsCandidate(Candidates, last'.who)
        /\ ~Contains(Invulnerables, last'.who)) =>
          /\ last'.result = "TooManyCandidates"
          /\ last'.events = <<>>
          /\ UNCHANGED storage]_vars

C5_Witness ==
    /\ last.op \in RegisterOps
    /\ last.result = "TooManyCandidates"
    /\ DesiredCandidates = 2
    /\ Len(Candidates) = 2
    /\ ~IsCandidate(Candidates, last.who)
    /\ ~Contains(Invulnerables, last.who)

(* C6 as stated: registering an account that is already a candidate fails  *)
(* with AlreadyCandidate at any capacity and changes nothing.               *)
C6_Original ==
    [][(last'.op \in RegisterOps /\ IsCandidate(Candidates, last'.who)) =>
          /\ last'.result = "AlreadyCandidate"
          /\ UNCHANGED storage]_vars

(* C6: registering an account that is already a candidate always fails and *)
(* changes nothing; the error is TooManyCandidates when the registry is    *)
(* full, else AlreadyInvulnerable when the account is invulnerable too,    *)
(* else ValidatorNotRegistered when its keys are not registered, and       *)
(* AlreadyCandidate otherwise.                                              *)
C6_DuplicateRejected ==
    [][(last'.op \in RegisterOps /\ IsCandidate(Candidates, last'.who)) =>
          /\ last'.result =
                 IF Len(Candidates) >= DesiredCandidates THEN "TooManyCandidates"
                 ELSE IF Contains(Invulnerables, last'.who)
                      THEN "AlreadyInvulnerable"
                 ELSE IF last'.who \notin Registered
                      THEN "ValidatorNotRegistered"
                 ELSE "AlreadyCandidate"
          /\ last'.events = <<>>
          /\ UNCHANGED storage]_vars

C6_Witness ==
    /\ last.op \in RegisterOps
    /\ last.result = "AlreadyCandidate"
    /\ IsCandidate(Candidates, last.who)
    /\ Len(Candidates) < DesiredCandidates

(* C7 as stated: registering an invulnerable fails with                    *)
(* AlreadyInvulnerable whatever the candidate count and desired value.     *)
C7_Original ==
    [][(last'.op \in RegisterOps /\ Contains(Invulnerables, last'.who)) =>
          /\ last'.result = "AlreadyInvulnerable"
          /\ UNCHANGED storage]_vars

(* C7: registering an invulnerable always fails and changes nothing; the   *)
(* error is AlreadyInvulnerable while the candidate count is below the     *)
(* desired count and TooManyCandidates once it has reached it.             *)
C7_InvulnerableRejected ==
    [][(last'.op \in RegisterOps /\ Contains(Invulnerables, last'.who)) =>
          /\ last'.result =
                 IF Len(Candidates) >= DesiredCandidates THEN "TooManyCandidates"
                 ELSE "AlreadyInvulnerable"
          /\ last'.events = <<>>
          /\ UNCHANGED storage]_vars

C7_Witness ==
    /\ last.op \in RegisterOps
    /\ last.result = "AlreadyInvulnerable"
    /\ Contains(Invulnerables, last.who)
    /\ last.who \in Registered
    /\ Len(Candidates) < DesiredCandidates

(* C8 as stated: leave_intent or remove_collator for an account that is no *)
(* candidate fails with NotCandidate and changes nothing.                   *)
C8_Original ==
    [][(last'.op \in RemoveOps /\ ~IsCandidate(Candidates, last'.who)) =>
          /\ last'.result = "NotCandidate"
          /\ UNCHANGED storage]_vars

(* C8: a removal of an account that is no candidate always fails and       *)
(* changes nothing and emits nothing; the error is NotCandidate, except    *)
(* for remove_collator of an invulnerable, which fails with                *)
(* NotAllowRemoveInvulnerable.                                              *)
C8_NotCandidate ==
    [][(last'.op \in RemoveOps /\ ~IsCandidate(Candidates, last'.who)) =>
          /\ last'.result =
                 IF /\ last'.op = "remove_collator"
                    /\ Contains(Invulnerables, last'.who)
                 THEN "NotAllowRemoveInvulnerable"
                 ELSE "NotCandidate"
          /\ last'.events = <<>>
          /\ UNCHANGED storage]_vars

(* a removal of a non-candidate that has authored blocks this session *)
C8_Witness ==
    /\ last.op \in RemoveOps
    /\ last.result = "NotCandidate"
    /\ ~IsCandidate(Candidates, last.who)
    /\ last.who \in DOMAIN BlocksPerCollatorThisSession
    /\ Len(Candidates) >= 1

(* C10: the roster new_session returns is the invulnerables followed by    *)
(* the surviving candidates in registry order, and holds no account twice. *)
C10_Roster ==
    last.op = "new_session" =>
        /\ last.roster = Invulnerables \o Whos(Candidates)
        /\ NoDuplicates(last.roster)

(* the percentile rank, the threshold and the evicted list in exact       *)
(* integer arithmetic                                                      *)
C3_Rank(P, n) == IF (P * n) \div 100 >= 1 THEN (P * n) \div 100 - 1 ELSE 0

C3_Threshold(U, blocks) == ((100 - U) * blocks) \div 100

C3_Evicted(sorted, P, U, invulnerables, candidates) ==
    LET r == C3_Rank(P, Len(sorted))
        kick_threshold == C3_Threshold(U, sorted[r + 1][2])
        kicked == SelectSeq(SubSeq(sorted, 1, r),
                            LAMBDA e : /\ e[2] <= kick_threshold
                                       /\ IsCandidate(candidates, e[1])
                                       /\ ~Contains(invulnerables, e[1]))
    IN  [i \in 1..Len(kicked) |-> kicked[i][1]]

(* C3 as stated: over a non-empty snapshot sorted ascending by count, with *)
(* r = max(floor(P * N / 100) - 1, 0) and kick_threshold =                 *)
(* floor((100 - U) * count at r / 100), new_session evicts exactly the     *)
(* registered, non-invulnerable accounts before position r whose count is  *)
(* at most kick_threshold, and returns exactly that list.                  *)
C3_ExactPercentile ==
    [][(last'.op = "new_session" /\ last'.sorted # <<>>) =>
          LET evicted == C3_Evicted(last'.sorted, Percentile, Underperform,
                                    Invulnerables, Candidates)
          IN  /\ last'.removed = evicted
              /\ Whos(Candidates') =
                     SelectSeq(Whos(Candidates),
                               LAMBDA who : ~Contains(evicted, who))]_vars

(* floor((pot - minimum) / 2), and 0 for a pot below the minimum *)
C9_Expected(pot, minimum) ==
    IF pot >= minimum THEN (pot - minimum) \div 2 ELSE 0

(* the amount note_author computes and hands to the transfer is that      *)
(* amount in every call; it is the amount moved when the transfer succeeds *)
C9_RewardOffered ==
    [][last'.op = "note_author" =>
          /\ last'.reward = C9_Expected(potFree, ExistentialDeposit)
          /\ last'.reward >= 0
          /\ RewardOf(1000, 10) = 495
          /\ IF last'.transfer = "Ok"
             THEN /\ potFree - potFree' = last'.reward
                  /\ free'[last'.who] - free[last'.who] = last'.reward
             ELSE UNCHANGED <<potFree, free>>]_vars

(* C9 as stated: every note_author moves floor((pot - minimum) / 2) from   *)
(* the pot to the author when the pot holds the minimum, and 0 otherwise.  *)
C9_AmountMoved ==
    [][last'.op = "note_author" =>
          /\ potFree - potFree' = C9_Expected(potFree, ExistentialDeposit)
          /\ free'[last'.who] - free[last'.who] =
                 C9_Expected(potFree, ExistentialDeposit)]_vars

(* C11: assemble_collators(candidates) returns the Invulnerables list      *)
(* followed by the candidates handed over, each in its order, leaves out   *)
(* no repeated account and changes no storage.                              *)
C11_Assemble ==
    [][last'.op = "assemble_collators" =>
          /\ Len(last'.roster) = Len(Invulnerables) + Len(last'.input)
          /\ \A i \in 1..Len(Invulnerables) : last'.roster[i] = Invulnerables[i]
          /\ \A i \in 1..Len(last'.input) :
                 last'.roster[Len(Invulnerables) + i] = last'.input[i]
          /\ UNCHANGED storage]_vars

(* invulnerables [1, 2] and candidates [2, 3]: account 2 is returned twice *)
C11_Witness ==
    /\ last.op = "assemble_collators"
    /\ Invulnerables = <<1, 2>>
    /\ last.input = <<2, 3>>
    /\ last.roster = <<1, 2, 2, 3>>

(* C12: right after start_session the performance map has no entry, so     *)
(* every account's counter reads zero whatever it was before; candidates,  *)
(* deposits, reserved balances and invulnerables are as before.            *)
C12_Reset ==
    [][last'.op = "start_session" =>
          /\ DOMAIN BlocksPerCollatorThisSession' = {}
          /\ \A a \in DOMAIN free :
                 BlocksGet(BlocksPerCollatorThisSession', a) = 0
          /\ UNCHANGED <<Invulnerables, Candidates, DesiredCandidates,
                         CandidacyBond, free, reserved, potFree, Registered>>]_vars

(* a session start with two bonded candidates and an invulnerable *)
C12_Witness ==
    /\ last.op = "start_session"
    /\ DOMAIN BlocksPerCollatorThisSession = {}
    /\ Len(Candidates) = 2
    /\ \A i \in 1..Len(Candidates) : reserved[Candidates[i].who] >= 1
    /\ Len(Invulnerables) = 1

C14_InvulnerableKept ==
    [][last'.op = "new_session" =>
          \A i \in 1..Len(Invulnerables) :
              LET a == Invulnerables[i] IN
              /\ ~Contains(last'.removed, a)
              /\ ~Contains(last'.failed, a)
              /\ IsCandidate(Candidates, a) => IsCandidate(Candidates', a)
              /\ reserved'[a] = reserved[a]
              /\ BlocksGet(BlocksPerCollatorThisSession', a) =
                     BlocksGet(BlocksPerCollatorThisSession, a)]_vars

(* a bonded invulnerable in the low slice with a count at or below the     *)
(* threshold is still registered after a new_session that evicted another  *)
C14_Witness ==
    /\ last.op = "new_session"
    /\ last.removed # <<>>
    /\ \E k \in 1..Len(last.sorted) :
           LET a == last.sorted[k][1]
               r == OrdinalRank(Percentile, Len(last.sorted))
           IN  /\ k <= r
               /\ last.sorted[k][2] <=
                      KickThreshold(Underperform, last.sorted[r + 1][2])
               /\ Contains(Invulnerables, a)
               /\ IsCandidate(Candidates, a)
               /\ reserved[a] = 1
               /\ a \in DOMAIN BlocksPerCollatorThisSession

(* C15: remove_collator for an account in the Invulnerables list fails     *)
(* with NotAllowRemoveInvulnerable, emits nothing and leaves the registry, *)
(* the reserved bonds and the performance counters as they were.           *)
C15_InvulnerableNotRemoved ==
    [][(last'.op = "remove_collator" /\ Contains(Invulnerables, last'.who)) =>
          /\ last'.result = "NotAllowRemoveInvulnerable"
          /\ last'.events = <<>>
          /\ UNCHANGED storage]_vars

(* the target is an invulnerable that is a bonded candidate as well and    *)
(* has authored a block                                                     *)
C15_Witness ==
    /\ last.op = "remove_collator"
    /\ last.result = "NotAllowRemoveInvulnerable"
    /\ Contains(Invulnerables, last.who)
    /\ IsCandidate(Candidates, last.who)
    /\ reserved[last.who] >= 1
    /\ last.who \in DOMAIN BlocksPerCollatorThisSession

(* the deposit the registry records for a candidate *)
DepositOf(cands, who) == cands[Position(cands, who)].deposit

(* the accounts a call has removed from the registry *)
Departed ==
    {a \in DOMAIN reserved :
        IsCandidate(Candidates, a) /\ ~IsCandidate(Candidates', a)}

(* C16: set_candidacy_bond writes the bond and nothing else; no call       *)
(* changes the deposit recorded for a candidate that stays registered; and *)
(* a removal releases to the account the deposit its entry records, which  *)
(* is the one recorded at its registration and not the bond in force.      *)
C16_BondNotRetroactive ==
    /\ [][last'.op = "set_candidacy_bond" =>
             /\ CandidacyBond' = last'.events[1].amount
             /\ UNCHANGED <<Invulnerables, Candidates,
                            BlocksPerCollatorThisSession, DesiredCandidates,
                            free, reserved, potFree, Registered>>]_vars
    /\ [][\A a \in DOMAIN reserved :
             (IsCandidate(Candidates, a) /\ IsCandidate(Candidates', a)) =>
                 /\ DepositOf(Candidates', a) = DepositOf(Candidates, a)
                 /\ reserved'[a] = reserved[a]]_vars
    /\ [][\A a \in Departed :
             /\ reserved'[a] = reserved[a] - DepositOf(Candidates, a)
             /\ free'[a] = free[a] + DepositOf(Candidates, a)]_vars

(* a candidate registered under a smaller bond has left and has all of its *)
(* balance free again, while the bond in force is more than it ever held   *)
C16_Witness ==
    /\ last.op \in RemoveOps
    /\ last.result = "Ok"
    /\ reserved[last.who] = 0
    /\ free[last.who] = ExistentialDeposit
    /\ CandidacyBond > free[last.who]
    /\ Len(Candidates) = 1
    /\ Candidates[1].deposit # CandidacyBond

(* C17: the reward transfer of every note_author succeeds, whatever the    *)
(* pot holds and whatever the author holds.                                 *)
C17_TransferSucceeds ==
    last.op = "note_author" => last.transfer = "Ok"

(* what the removal of the accounts of R leaves: the other entries in      *)
(* their order, the deposits of R back in the free balances, no counter    *)
(* for R, and every other balance and counter as before                    *)
C18_RemovedExactly(R) ==
    /\ Candidates' = SelectSeq(Candidates, LAMBDA c : c.who \notin R)
    /\ \A a \in DOMAIN reserved :
           IF a \in R
           THEN /\ IsCandidate(Candidates, a)
                /\ reserved'[a] = reserved[a] - DepositOf(Candidates, a)
                /\ free'[a] = free[a] + DepositOf(Candidates, a)
                /\ a \notin DOMAIN BlocksPerCollatorThisSession'
           ELSE /\ reserved'[a] = reserved[a]
                /\ free'[a] = free[a]
                /\ BlocksGet(BlocksPerCollatorThisSession', a) =
                       BlocksGet(BlocksPerCollatorThisSession, a)
                /\ a \in DOMAIN BlocksPerCollatorThisSession' <=>
                       a \in DOMAIN BlocksPerCollatorThisSession

(* C18: a successful removal of an account, by leave_intent, by            *)
(* remove_collator or by eviction, takes its entry out of the registry,    *)
(* releases its recorded deposit and clears its counter, and leaves every  *)
(* other candidate's entry, order, deposit and counter as they were.       *)
C18_RemovalFrame ==
    /\ [][(last'.op \in RemoveOps /\ last'.result = "Ok") =>
             C18_RemovedExactly({last'.who})]_vars
    /\ [][last'.op = "new_session" =>
             C18_RemovedExactly({last'.removed[i] :
                                    i \in 1..Len(last'.removed)})]_vars

(* an eviction released the bond of one candidate and cleared its counter, *)
(* the other candidate keeps its entry, bond and counter                    *)
C18_Witness ==
    /\ last.op = "new_session"
    /\ Len(last.removed) = 1
    /\ reserved[last.removed[1]] = 0
    /\ last.removed[1] \notin DOMAIN BlocksPerCollatorThisSession
    /\ Len(Candidates) = 1
    /\ reserved[Candidates[1].who] = Candidates[1].deposit
    /\ Candidates[1].deposit # CandidacyBond
    /\ BlocksGet(BlocksPerCollatorThisSession, Candidates[1].who) >= 1

C20_RankEntrySafe ==
    [][(last'.op = "new_session" /\ last'.sorted # <<>>) =>
          LET sorted == last'.sorted
              r == C3_Rank(Percentile, Len(sorted))
          IN  /\ \A k \in (r + 1)..Len(sorted) :
                     /\ ~Contains(last'.removed, sorted[k][1])
                     /\ IsCandidate(Candidates, sorted[k][1]) =>
                            IsCandidate(Candidates', sorted[k][1])
              /\ \A k \in 1..Len(sorted) :
                     sorted[k][2] > sorted[r + 1][2] =>
                         ~Contains(last'.removed, sorted[k][1])
              /\ Len(last'.removed) <= r
              /\ Len(Candidates) - Len(Candidates') <= r
              /\ Len(sorted) = 1 =>
                     (last'.removed = <<>> /\ Candidates' = Candidates)]_vars

(* four tracked accounts, r = 2: both accounts before rank r were evicted, *)
(* the candidate at rank r is still registered                              *)
C20_Witness ==
    /\ last.op = "new_session"
    /\ Len(last.sorted) = 4
    /\ C3_Rank(Percentile, Len(last.sorted)) = 2
    /\ last.removed = <<last.sorted[1][1], last.sorted[2][1]>>
    /\ IsCandidate(Candidates, last.sorted[3][1])
    /\ ~Contains(Invulnerables, last.sorted[3][1])

(* C21: a registration that fails, for whatever reason, leaves the         *)
(* candidate list, every reserved and free balance and every performance   *)
(* counter as they were and emits no CandidateAdded event.                 *)
C21_FailedRegistration ==
    [][(last'.op \in RegisterOps /\ last'.result # "Ok") =>
          /\ last'.result \in {"TooManyCandidates", "AlreadyInvulnerable",
                                "NoAssociatedValidatorId",
                                "ValidatorNotRegistered", "AlreadyCandidate",
                                "InsufficientBalance"}
          /\ last'.events = <<>>
          /\ UNCHANGED storage]_vars

(* the bond could not be reserved, while another candidate is registered   *)
(* and has authored a block                                                 *)
C21_Witness ==
    /\ last.op \in RegisterOps
    /\ last.result = "InsufficientBalance"
    /\ free[last.who] < CandidacyBond
    /\ reserved[last.who] = 0
    /\ Len(Candidates) = 1
    /\ Candidates[1].who \in DOMAIN BlocksPerCollatorThisSession

(* C22: in every reachable state the Candidates list holds no account      *)
(* twice; a successful registration puts the account at the end of the     *)
(* list, behind every candidate registered before it, and every other call *)
(* leaves the remaining candidates in the order they had, so the list is   *)
(* in the order of the registrations and a re-registered account is last.  *)
C22_RegistrationOrder ==
    /\ [](NoDuplicates(Whos(Candidates)))
    /\ [][IF last'.op \in RegisterOps /\ last'.result = "Ok"
          THEN /\ ~IsCandidate(Candidates, last'.who)
               /\ Whos(Candidates') = Append(Whos(Candidates), last'.who)
          ELSE Whos(Candidates') =
                   SelectSeq(Whos(Candidates),
                             LAMBDA who : IsCandidate(Candidates', who))]_vars

(* the second of four candidates has been removed: the other three are in *)
(* the order they had, which is not the order of their account ids         *)
C22_Witness ==
    /\ last.op \in RemoveOps
    /\ last.result = "Ok"
    /\ last.who = 1
    /\ Whos(Candidates) = <<3, 4, 2>>

(* C23: a note_author for an account whose counter is at the largest value *)
(* the counter can hold leaves it there; no note_author ever lowers the    *)
(* author's counter or takes it past that value.                            *)
C23_Saturates ==
    [][last'.op = "note_author" =>
          LET before == BlocksGet(BlocksPerCollatorThisSession, last'.who)
              after == BlocksGet(BlocksPerCollatorThisSession', last'.who)
          IN  /\ before = BlockCountMax => after = BlockCountMax
              /\ after >= before
              /\ after <= BlockCountMax]_vars

(* two authors at the largest value, a note_author having run last *)
C23_Witness ==
    /\ last.op = "note_author"
    /\ BlocksGet(BlocksPerCollatorThisSession, last.who) = BlockCountMax
    /\ \E a \in DOMAIN BlocksPerCollatorThisSession :
           /\ a # last.who
           /\ BlocksPerCollatorThisSession[a] = BlockCountMax

(* the accounts of a list *)
AccountsOf(s) == {s[i] : i \in 1..Len(s)}

(* C24: the accounts a new_session evicts are the same for every order in  *)
(* which the counter map can be iterated and in which the unstable sort    *)
(* can leave equal counts.                                                  *)
C24_OrderIndependent ==
    [][last'.op = "new_session" =>
          \A other \in SortedSnapshots(BlocksPerCollatorThisSession) :
              AccountsOf(kick_stale_candidates(Store, other).removed) =
                  AccountsOf(last'.removed)]_vars

(* C25: every removal kick_stale_candidates attempts succeeds: no          *)
(* new_session leaves an account it tried to remove and could not.         *)
C25_RemovalsSucceed ==
    last.op = "new_session" => last.failed = <<>>

(* C26: every counter entry holds at least one block, and it is the number *)
(* of blocks notified since the last reset; a new_session evicts only      *)
(* accounts that have a counter entry, so a candidate without one stays    *)
(* registered and bonded whatever the other accounts have authored.        *)
C26_OnlyTrackedEvicted ==
    /\ [](\A a \in DOMAIN BlocksPerCollatorThisSession :
             /\ BlocksPerCollatorThisSession[a] >= 1
             /\ notified[a] = BlocksPerCollatorThisSession[a])
    /\ [][last'.op = "new_session" =>
             /\ \A i \in 1..Len(last'.removed) :
                    /\ last'.removed[i] \in DOMAIN BlocksPerCollatorThisSession
                    /\ notified[last'.removed[i]] >= 1
             /\ \A i \in 1..Len(Candidates) :
                    Candidates[i].who \notin DOMAIN BlocksPerCollatorThisSession =>
                        /\ IsCandidate(Candidates', Candidates[i].who)
                        /\ reserved'[Candidates[i].who] =
                               reserved[Candidates[i].who]
                        /\ ~Contains(last'.removed, Candidates[i].who)]_vars

(* a candidate without a counter is still registered after a new_session   *)
(* that evicted another one, the best author having five blocks           *)
C26_Witness ==
    /\ last.op = "new_session"
    /\ Len(last.removed) = 1
    /\ last.sorted[Len(last.sorted)][2] = 5
    /\ \E i \in 1..Len(Candidates) :
           /\ \A k \in 1..Len(last.sorted) :
                  last.sorted[k][1] # Candidates[i].who
           /\ ~Contains(Invulnerables, Candidates[i].who)
           /\ reserved[Candidates[i].who] = Candidates[i].deposit

(* the roster without the leading invulnerables *)
C27_CandidatePart(roster, invulnerables) ==
    SubSeq(roster, Len(invulnerables) + 1, Len(roster))

(* C27: after a new_session the roster returned, without the leading       *)
(* Invulnerables, is the account sequence of the stored Candidates, and    *)
(* every account of the removed list is no candidate any more, has nothing *)
(* reserved and has no counter.                                             *)
C27_RosterMatchesRegistry ==
    last.op = "new_session" =>
        /\ SubSeq(last.roster, 1, Len(Invulnerables)) = Invulnerables
        /\ C27_CandidatePart(last.roster, Invulnerables) = Whos(Candidates)
        /\ \A i \in 1..Len(last.removed) :
               /\ ~IsCandidate(Candidates, last.removed[i])
               /\ reserved[last.removed[i]] = 0
               /\ last.removed[i] \notin DOMAIN BlocksPerCollatorThisSession

(* two of four candidates were evicted; the roster is the invulnerable     *)
(* followed by the two that stay, one of them being the invulnerable       *)
C27_Witness ==
    /\ last.op = "new_session"
    /\ Len(last.removed) = 2
    /\ Len(Candidates) = 2
    /\ Len(Invulnerables) = 1
    /\ Len(last.roster) = 3
    /\ IsCandidate(Candidates, Invulnerables[1])
====
